---- MODULE Spec2Model ----
(***************************************************************************)
(* Construction and forward pass of the two CIFAR network families of      *)
(* pytorch_image_classification/models/cifar: resnet_preact.py (BasicBlock,*)
(* BottleneckBlock, Network) and wrn.py (BasicBlock, Network).             *)
(*                                                                         *)
(* A tensor is its shape (B, C, H, W) plus the list `ops` of the layers    *)
(* applied to it since it entered the current block; a layer whose         *)
(* PyTorch implementation raises yields the tensor Err, and every layer    *)
(* applied to Err yields Err (the exception propagates).                   *)
(***************************************************************************)
EXTENDS Integers, Sequences, FiniteSets, TLC

\* ------------------------------------------------------------------ bounds
MaxDepth == 21        \* depths run over -NegDepth .. MaxDepth
NegDepth == 10
MaxChannels == 2      \* initial_channels runs over 1 .. MaxChannels
MaxWiden == 2         \* widening_factor runs over 1 .. MaxWiden
MaxImage == 6         \* the configured image_size runs over 1 .. MaxImage
MaxSize == 5          \* height and width of a forward input run over 1 .. MaxSize
MaxBatch == 2         \* batch size of a forward input runs over 1 .. MaxBatch
MaxBlockChannels == 4 \* channel counts of a stand-alone block run over 1 .. MaxBlockChannels

Depths == (0 - NegDepth)..MaxDepth
Channels == (1..MaxChannels) \cup {16}
Widens == 1..MaxWiden
ImageSizes == 1..MaxImage
Sizes == 1..MaxSize
Batches == 1..MaxBatch
BlockTypes == {"basic", "bottleneck", "plain"}   \* "plain" is an unknown block_type
DropRates == {0, 3}                              \* drop_rate in tenths
Strides == {1, 2}
DatasetChannels == {3}                           \* config.dataset.n_channels
DatasetClasses == {10}                           \* config.dataset.n_classes

\* ------------------------------------------------------------- tensors
Err == [ok |-> FALSE, B |-> 0, C |-> 0, H |-> 0, W |-> 0, ops |-> <<>>]

Tensor(b, c, h, w) == [ok |-> TRUE, B |-> b, C |-> c, H |-> h, W |-> w, ops |-> <<>>]

Shape(t) == [ok |-> t.ok, B |-> t.B, C |-> t.C, H |-> t.H, W |-> t.W]

\* F(v) with v evaluated once: the value of a statement's result, bound to a name
Bind(v, F(_)) == CHOOSE r \in { F(z) : z \in {v} } : TRUE

\* the tensor as a block sees it on entry: same shape, no layer applied yet
BlockInput(t) == [t EXCEPT !.ops = <<>>]

\* ------------------------------------------------------- torch layers
\* nn.Conv2d(in_channels, out_channels, kernel_size, stride, padding, bias=False)
Conv2d(in_channels, out_channels, kernel_size, stride, padding) ==
    [in_channels |-> in_channels, out_channels |-> out_channels,
     kernel_size |-> kernel_size, stride |-> stride, padding |-> padding]

\* output length of a convolution along one spatial axis
ConvOutSize(n, kernel_size, stride, padding) ==
    ((n + 2 * padding - kernel_size) \div stride) + 1

\* Conv2d.forward: the weight must have at least one output channel ("expected
\* weight to be at least 1 at dimension 0"), the input must carry in_channels
\* channels and the padded input must not be smaller than the kernel
Conv2d_forward(m, x, name) ==
    IF ~x.ok \/ m.out_channels < 1 \/ x.C # m.in_channels
       \/ x.H + 2 * m.padding < m.kernel_size
       \/ x.W + 2 * m.padding < m.kernel_size
    THEN Err
    ELSE [x EXCEPT !.C = m.out_channels,
                   !.H = ConvOutSize(x.H, m.kernel_size, m.stride, m.padding),
                   !.W = ConvOutSize(x.W, m.kernel_size, m.stride, m.padding),
                   !.ops = Append(@, name)]

\* nn.BatchNorm2d(num_features)
BatchNorm2d(num_features) == [num_features |-> num_features]

\* BatchNorm2d.forward: the channel count must match; in training mode
\* F.batch_norm refuses an input with a single value per channel
\* ("Expected more than 1 value per channel when training")
BatchNorm2d_forward(m, x, training, name) ==
    IF ~x.ok \/ x.C # m.num_features \/ (training /\ x.B * x.H * x.W = 1)
    THEN Err
    ELSE [x EXCEPT !.ops = Append(@, name)]

\* F.relu(x, inplace=True)
relu(x) == IF x.ok THEN [x EXCEPT !.ops = Append(@, "relu")] ELSE Err

\* F.dropout(y, p, training, inplace=False): shape preserving
dropout(x) == IF x.ok THEN [x EXCEPT !.ops = Append(@, "dropout")] ELSE Err

\* adaptive_avg_pool2d leaving the spatial size as it is
adaptive_avg_pool2d_unpooled(x) ==
    IF x.ok THEN [x EXCEPT !.ops = Append(@, "avg_pool")] ELSE Err

\* F.adaptive_avg_pool2d(x, output_size=1)
adaptive_avg_pool2d(x) ==
    IF x.ok THEN [x EXCEPT !.H = 1, !.W = 1, !.ops = Append(@, "avg_pool")] ELSE Err

\* self.shortcut(x): an nn.Sequential holding nothing (identity) or one 'conv'
shortcut_forward(shortcut, x) ==
    IF Len(shortcut) = 0 THEN x ELSE Conv2d_forward(shortcut[1].module, x, "shortcut.conv")

\* y += s: in-place addition, s must be broadcastable to the shape of y
iadd(y, s) ==
    IF y.ok /\ s.ok /\ s.B \in {y.B, 1} /\ s.C \in {y.C, 1}
       /\ s.H \in {y.H, 1} /\ s.W \in {y.W, 1}
    THEN [y EXCEPT !.ops = Append(@, "add")]
    ELSE Err

\* make_shortcut with the projection left at stride 1
make_shortcut_unstrided(in_channels, out_channels, stride) ==
    IF in_channels # out_channels
    THEN <<[name |-> "conv",
            module |-> Conv2d(in_channels, out_channels, 1, 1, 0)]>>
    ELSE <<>>

\* the shortcut container of a block: a 1x1 strided projection when the
\* channel count changes, otherwise empty
make_shortcut(in_channels, out_channels, stride) ==
    IF in_channels # out_channels
    THEN <<[name |-> "conv",
            module |-> Conv2d(in_channels, out_channels, 1, stride, 0)]>>
    ELSE <<>>

\* ------------------------------------------- resnet_preact.BasicBlock
BasicBlock_expansion == 1

BasicBlock(in_channels, out_channels, stride, remove_first_relu, add_last_bn, preact) ==
    [kind |-> "BasicBlock",
     in_channels |-> in_channels, out_channels |-> out_channels, stride |-> stride,
     remove_first_relu |-> remove_first_relu,
     add_last_bn |-> add_last_bn,
     preact |-> preact,
     bn1 |-> BatchNorm2d(in_channels),
     conv1 |-> Conv2d(in_channels, out_channels, 3, stride, 1),
     bn2 |-> BatchNorm2d(out_channels),
     conv2 |-> Conv2d(out_channels, out_channels, 3, 1, 1),
     last_bn |-> IF add_last_bn THEN <<BatchNorm2d(out_channels)>> ELSE <<>>,
     shortcut |-> make_shortcut(in_channels, out_channels, stride)]

\* BasicBlock_forward with the first ReLU applied whatever remove_first_relu is
BasicBlock_forward_always_relu(self, x0, training) ==
    LET x  == IF self.preact
              THEN relu(BatchNorm2d_forward(self.bn1, x0, training, "bn1"))
              ELSE x0
        y1 == IF self.preact
              THEN Conv2d_forward(self.conv1, x, "conv1")
              ELSE Conv2d_forward(self.conv1,
                       relu(BatchNorm2d_forward(self.bn1, x0, training, "bn1")),
                       "conv1")
        y2 == relu(BatchNorm2d_forward(self.bn2, y1, training, "bn2"))
        y3 == Conv2d_forward(self.conv2, y2, "conv2")
        y4 == IF self.add_last_bn
              THEN BatchNorm2d_forward(self.last_bn[1], y3, training, "bn3")
              ELSE y3
        s  == shortcut_forward(self.shortcut, x)
    IN [res |-> y4, sc |-> s, y |-> iadd(y4, s)]

\* returns the residual-path tensor and the shortcut tensor that are added,
\* and the sum
BasicBlock_forward(self, x0, training) ==
    LET x  == IF self.preact
              THEN relu(BatchNorm2d_forward(self.bn1, x0, training, "bn1"))
              ELSE x0
        y1 == IF self.preact
              THEN Conv2d_forward(self.conv1, x, "conv1")
              ELSE LET yb == BatchNorm2d_forward(self.bn1, x0, training, "bn1")
                       yr == IF ~self.remove_first_relu THEN relu(yb) ELSE yb
                   IN Conv2d_forward(self.conv1, yr, "conv1")
        y2 == relu(BatchNorm2d_forward(self.bn2, y1, training, "bn2"))
        y3 == Conv2d_forward(self.conv2, y2, "conv2")
        y4 == IF self.add_last_bn
              THEN BatchNorm2d_forward(self.last_bn[1], y3, training, "bn3")
              ELSE y3
        s  == shortcut_forward(self.shortcut, x)
    IN [res |-> y4, sc |-> s, y |-> iadd(y4, s)]

\* -------------------------------------- resnet_preact.BottleneckBlock
BottleneckBlock_expansion == 4

BottleneckBlock(in_channels, out_channels, stride, remove_first_relu, add_last_bn, preact) ==
    LET bottleneck_channels == out_channels \div BottleneckBlock_expansion
    IN [kind |-> "BottleneckBlock",
        in_channels |-> in_channels, out_channels |-> out_channels, stride |-> stride,
        remove_first_relu |-> remove_first_relu,
        add_last_bn |-> add_last_bn,
        preact |-> preact,
        bn1 |-> BatchNorm2d(in_channels),
        conv1 |-> Conv2d(in_channels, bottleneck_channels, 1, 1, 0),
        bn2 |-> BatchNorm2d(bottleneck_channels),
        conv2 |-> Conv2d(bottleneck_channels, bottleneck_channels, 3, stride, 1),
        bn3 |-> BatchNorm2d(bottleneck_channels),
        conv3 |-> Conv2d(bottleneck_channels, out_channels, 1, 1, 0),
        last_bn |-> IF add_last_bn THEN <<BatchNorm2d(out_channels)>> ELSE <<>>,
        shortcut |-> make_shortcut(in_channels, out_channels, stride)]

BottleneckBlock_forward(self, x0, training) ==
    LET x  == IF self.preact
              THEN relu(BatchNorm2d_forward(self.bn1, x0, training, "bn1"))
              ELSE x0
        y1 == IF self.preact
              THEN Conv2d_forward(self.conv1, x, "conv1")
              ELSE LET yb == BatchNorm2d_forward(self.bn1, x0, training, "bn1")
                       yr == IF ~self.remove_first_relu THEN relu(yb) ELSE yb
                   IN Conv2d_forward(self.conv1, yr, "conv1")
        y2 == relu(BatchNorm2d_forward(self.bn2, y1, training, "bn2"))
        y3 == Conv2d_forward(self.conv2, y2, "conv2")
        y4 == relu(BatchNorm2d_forward(self.bn3, y3, training, "bn3"))
        y5 == Conv2d_forward(self.conv3, y4, "conv3")
        y6 == IF self.add_last_bn
              THEN BatchNorm2d_forward(self.last_bn[1], y5, training, "bn4")
              ELSE y5
        s  == shortcut_forward(self.shortcut, x)
    IN [res |-> y6, sc |-> s, y |-> iadd(y6, s)]

\* ------------------------------------------------------ wrn.BasicBlock
WrnBasicBlock(in_channels, out_channels, stride, drop_rate) ==
    [kind |-> "WrnBasicBlock",
     in_channels |-> in_channels, out_channels |-> out_channels, stride |-> stride,
     drop_rate |-> drop_rate,
     preactivate_both |-> (in_channels # out_channels),
     bn1 |-> BatchNorm2d(in_channels),
     conv1 |-> Conv2d(in_channels, out_channels, 3, stride, 1),
     bn2 |-> BatchNorm2d(out_channels),
     conv2 |-> Conv2d(out_channels, out_channels, 3, 1, 1),
     shortcut |-> make_shortcut(in_channels, out_channels, stride)]

WrnBasicBlock_forward(self, x0, training) ==
    LET x  == IF self.preactivate_both
              THEN relu(BatchNorm2d_forward(self.bn1, x0, training, "bn1"))
              ELSE x0
        y1 == IF self.preactivate_both
              THEN Conv2d_forward(self.conv1, x, "conv1")
              ELSE Conv2d_forward(self.conv1,
                       relu(BatchNorm2d_forward(self.bn1, x0, training, "bn1")),
                       "conv1")
        y2 == IF self.drop_rate > 0 THEN dropout(y1) ELSE y1
        y3 == relu(BatchNorm2d_forward(self.bn2, y2, training, "bn2"))
        y4 == Conv2d_forward(self.conv2, y3, "conv2")
        s  == shortcut_forward(self.shortcut, x)
    IN [res |-> y4, sc |-> s, y |-> iadd(y4, s)]

\* block(x) for a block of any of the three classes
Block_forward(self, x, training) ==
    CASE self.kind = "BasicBlock" -> BasicBlock_forward(self, x, training)
      [] self.kind = "BottleneckBlock" -> BottleneckBlock_forward(self, x, training)
      [] OTHER -> WrnBasicBlock_forward(self, x, training)

\* construction of a block of the class the network selected
NewBlock(block, in_channels, out_channels, stride, remove_first_relu, add_last_bn, preact) ==
    IF block = "BasicBlock"
    THEN BasicBlock(in_channels, out_channels, stride, remove_first_relu, add_last_bn, preact)
    ELSE BottleneckBlock(in_channels, out_channels, stride, remove_first_relu, add_last_bn, preact)

expansion(block) ==
    IF block = "BasicBlock" THEN BasicBlock_expansion ELSE BottleneckBlock_expansion

\* nn.Sequential of blocks applied in order; `adds` lists, block by block,
\* the shapes of the two operands of the block's addition
RECURSIVE Sequential_forward(_, _, _)
Sequential_forward(stage, x, training) ==
    IF Len(stage) = 0
    THEN [x |-> x, adds |-> <<>>]
    ELSE Bind(Block_forward(stage[1].module, BlockInput(x), training), LAMBDA r :
         Bind(Sequential_forward(Tail(stage), r.y, training), LAMBDA rest :
              [x |-> rest.x,
               adds |-> <<[res |-> Shape(r.res), sc |-> Shape(r.sc)]>> \o rest.adds]))

\* nn.Linear(in_features, out_features)
Linear(in_features, out_features) ==
    [in_features |-> in_features, out_features |-> out_features]

\* x.view(x.size(0), -1)
Flatten(x) == [ok |-> x.ok, B |-> x.B, F |-> x.C * x.H * x.W]

\* self.fc(x) on a flattened tensor
Linear_forward(m, v) ==
    IF v.ok /\ v.F = m.in_features
    THEN [ok |-> TRUE, B |-> v.B, F |-> m.out_features]
    ELSE [ok |-> FALSE, B |-> 0, F |-> 0]

\* ----------------------------------------------- resnet_preact.Network
\* the block count with the bottleneck divisor taken from the basic branch
ResnetPreact_n_blocks_per_stage_div6(block_type, depth) == (depth - 2) \div 6

\* the depth arithmetic of Network.__init__
ResnetPreact_n_blocks_per_stage(block_type, depth) ==
    IF block_type = "basic" THEN (depth - 2) \div 6 ELSE (depth - 2) \div 9

ResnetPreact_depth_ok(block_type, depth) ==
    IF block_type = "basic"
    THEN ResnetPreact_n_blocks_per_stage(block_type, depth) * 6 + 2 = depth
    ELSE ResnetPreact_n_blocks_per_stage(block_type, depth) * 9 + 2 = depth

\* the block_type assertion left out
ResnetPreact_block_type_unchecked(block_type) == TRUE

ResnetPreact_block_type_ok(block_type) == block_type \in {"basic", "bottleneck"}

\* the widths without the block's expansion factor
ResnetPreact_n_channels_unexpanded(initial_channels, block) ==
    <<initial_channels, initial_channels * 2, initial_channels * 4>>

ResnetPreact_n_channels(initial_channels, block) ==
    <<initial_channels,
      initial_channels * 2 * expansion(block),
      initial_channels * 4 * expansion(block)>>

\* _make_stage handing the stage's stride and preact flag to every block
ResnetPreact_make_stage_uniform(self, in_channels, out_channels, n_blocks, block, stride, preact) ==
    IF n_blocks < 1 THEN <<>>
    ELSE [i \in 1..n_blocks |->
            [name |-> <<"block", i>>,
             module |->
               NewBlock(block, IF i = 1 THEN in_channels ELSE out_channels, out_channels,
                        stride, self.remove_first_relu, self.add_last_bn, preact)]]

ResnetPreact_make_stage(self, in_channels, out_channels, n_blocks, block, stride, preact) ==
    IF n_blocks < 1 THEN <<>>
    ELSE [i \in 1..n_blocks |->
            [name |-> <<"block", i>>,
             module |->
               IF i = 1
               THEN NewBlock(block, in_channels, out_channels, stride,
                             self.remove_first_relu, self.add_last_bn, preact)
               ELSE NewBlock(block, out_channels, out_channels, 1,
                             self.remove_first_relu, self.add_last_bn, FALSE)]]

ResnetPreact_forward_conv(self, x, training) ==
    Bind(Conv2d_forward(self.conv, x, "conv"), LAMBDA x1 :
    Bind(Sequential_forward(self.stage1, x1, training), LAMBDA s1 :
    Bind(Sequential_forward(self.stage2, s1.x, training), LAMBDA s2 :
    Bind(Sequential_forward(self.stage3, s2.x, training), LAMBDA s3 :
    Bind(relu(BatchNorm2d_forward(self.bn, BlockInput(s3.x), training, "bn")), LAMBDA x5 :
         [x |-> adaptive_avg_pool2d(x5), adds |-> s1.adds \o s2.adds \o s3.adds])))))

ResnetPreact_forward(self, x, training) ==
    Bind(ResnetPreact_forward_conv(self, x, training), LAMBDA r :
         [y |-> Linear_forward(self.fc, Flatten(r.x)), adds |-> r.adds])

\* --------------------------------------------------------- wrn.Network
Wrn_n_blocks_per_stage(depth) == (depth - 4) \div 6

Wrn_depth_ok(depth) == Wrn_n_blocks_per_stage(depth) * 6 + 4 = depth

Wrn_n_channels(initial_channels, widening_factor) ==
    <<initial_channels,
      initial_channels * widening_factor,
      initial_channels * 2 * widening_factor,
      initial_channels * 4 * widening_factor>>

\* _make_stage building every block from in_channels
Wrn_make_stage_from_input(in_channels, out_channels, n_blocks, stride, drop_rate) ==
    IF n_blocks < 1 THEN <<>>
    ELSE [i \in 1..n_blocks |->
            [name |-> <<"block", i>>,
             module |->
               WrnBasicBlock(in_channels, out_channels, IF i = 1 THEN stride ELSE 1,
                             drop_rate)]]

Wrn_make_stage(in_channels, out_channels, n_blocks, stride, drop_rate) ==
    IF n_blocks < 1 THEN <<>>
    ELSE [i \in 1..n_blocks |->
            [name |-> <<"block", i>>,
             module |->
               IF i = 1
               THEN WrnBasicBlock(in_channels, out_channels, stride, drop_rate)
               ELSE WrnBasicBlock(out_channels, out_channels, 1, drop_rate)]]

Wrn_forward_conv(self, x, training) ==
    Bind(Conv2d_forward(self.conv, x, "conv"), LAMBDA x1 :
    Bind(Sequential_forward(self.stage1, x1, training), LAMBDA s1 :
    Bind(Sequential_forward(self.stage2, s1.x, training), LAMBDA s2 :
    Bind(Sequential_forward(self.stage3, s2.x, training), LAMBDA s3 :
    Bind(relu(BatchNorm2d_forward(self.bn, BlockInput(s3.x), training, "bn")), LAMBDA x5 :
         [x |-> adaptive_avg_pool2d(x5), adds |-> s1.adds \o s2.adds \o s3.adds])))))

Wrn_forward(self, x, training) ==
    Bind(Wrn_forward_conv(self, x, training), LAMBDA r :
         [y |-> Linear_forward(self.fc, Flatten(r.x)), adds |-> r.adds])

\* ------------------------------------------------------------- state
VARIABLES
    family,              \* "resnet_preact" or "wrn": the module whose Network is built
    config,              \* the configuration handed to Network.__init__
    pc,                  \* position in Network.__init__: start, build, probe, finish, done, failed
    err,                 \* the exception that ended the constructor, "" if none
    block,               \* local `block` of __init__
    n_blocks_per_stage,  \* local `n_blocks_per_stage`
    n_channels,          \* local `n_channels`
    net,                 \* the Network under construction; net.attrs names the sub-modules set so far
    out,                 \* the last Network.forward call and its result
    adds,                \* shapes of the operands of every block's addition in the
                         \* last run of _forward_conv (the probe or a forward call)
    bpc,                 \* position of the stand-alone block: new, built
    bargs,               \* constructor arguments of the stand-alone block
    blk,                 \* the stand-alone block
    bout                 \* the last forward call of the stand-alone block and its result

vars == <<family, config, pc, err, block, n_blocks_per_stage, n_channels, net, out, adds,
          bpc, bargs, blk, bout>>

netvars == <<family, config, pc, err, block, n_blocks_per_stage, n_channels, net, out,
            adds>>
blockvars == <<bpc, bargs, blk, bout>>

ResnetPreactConfigs ==
    [block_type : BlockTypes, depth : Depths, initial_channels : Channels,
     remove_first_relu : BOOLEAN, add_last_bn : BOOLEAN,
     preact_stage : [1..3 -> BOOLEAN],
     n_channels : DatasetChannels, image_size : ImageSizes, n_classes : DatasetClasses]

WrnConfigs ==
    [depth : Depths, initial_channels : Channels, widening_factor : Widens,
     drop_rate : DropRates,
     n_channels : DatasetChannels, image_size : ImageSizes, n_classes : DatasetClasses]

NoNet ==
    [attrs |-> {}, remove_first_relu |-> FALSE, add_last_bn |-> FALSE,
     conv |-> Conv2d(0, 0, 0, 0, 0), stage1 |-> <<>>, stage2 |-> <<>>, stage3 |-> <<>>,
     bn |-> BatchNorm2d(0), feature_size |-> 0, fc |-> Linear(0, 0)]

NoOut ==
    [called |-> FALSE, training |-> FALSE, x |-> Shape(Err),
     y |-> [ok |-> FALSE, B |-> 0, F |-> 0]]

NoBlockOut == [called |-> FALSE, training |-> FALSE, x |-> Shape(Err), r |-> <<>>]

NetIdle ==
    /\ family = "none" /\ config = [depth |-> 0] /\ pc = "idle" /\ err = ""
    /\ block = "" /\ n_blocks_per_stage = 0 /\ n_channels = <<>>
    /\ net = NoNet /\ out = NoOut /\ adds = <<>>

BlockIdle ==
    /\ bpc = "idle" /\ bargs = [cls |-> "none"] /\ blk = [kind |-> "none"]
    /\ bout = NoBlockOut

\* Network(config) is called
Init ==
    /\ \/ family = "resnet_preact" /\ config \in ResnetPreactConfigs
       \/ family = "wrn" /\ config \in WrnConfigs
    /\ pc = "start" /\ err = ""
    /\ block = "" /\ n_blocks_per_stage = 0 /\ n_channels = <<>>
    /\ net = NoNet /\ out = NoOut /\ adds = <<>>
    /\ BlockIdle

Fail(e) == pc' = "failed" /\ err' = e

\* ------------------------------------- resnet_preact.Network.__init__
\* reads the configuration, selects the block class, checks the depth
ResnetPreact_init_check ==
    /\ family = "resnet_preact" /\ pc = "start"
    /\ net' = [net EXCEPT !.remove_first_relu = config.remove_first_relu,
                          !.add_last_bn = config.add_last_bn]
    /\ IF ~ResnetPreact_block_type_ok(config.block_type)
       THEN Fail("AssertionError") /\ UNCHANGED <<block, n_blocks_per_stage>>
       ELSE /\ block' = IF config.block_type = "basic" THEN "BasicBlock" ELSE "BottleneckBlock"
            /\ n_blocks_per_stage' =
                   ResnetPreact_n_blocks_per_stage(config.block_type, config.depth)
            /\ IF ResnetPreact_depth_ok(config.block_type, config.depth)
               THEN pc' = "build" /\ err' = err
               ELSE Fail("AssertionError")
    /\ UNCHANGED <<family, config, n_channels, out, adds, blockvars>>

\* channel widths, stem convolution, the three stages, the final batch norm
ResnetPreact_init_build ==
    /\ family = "resnet_preact" /\ pc = "build"
    /\ LET ch == ResnetPreact_n_channels(config.initial_channels, block)
       IN /\ n_channels' = ch
          /\ net' = [net EXCEPT
                !.conv = Conv2d(config.n_channels, ch[1], 3, 1, 1),
                !.stage1 = ResnetPreact_make_stage(net, ch[1], ch[1], n_blocks_per_stage,
                                                   block, 1, config.preact_stage[1]),
                !.stage2 = ResnetPreact_make_stage(net, ch[1], ch[2], n_blocks_per_stage,
                                                   block, 2, config.preact_stage[2]),
                !.stage3 = ResnetPreact_make_stage(net, ch[2], ch[3], n_blocks_per_stage,
                                                   block, 2, config.preact_stage[3]),
                !.bn = BatchNorm2d(ch[3]),
                !.attrs = @ \cup {"conv", "stage1", "stage2", "stage3", "bn"}]
    /\ pc' = "probe"
    /\ UNCHANGED <<family, config, err, block, n_blocks_per_stage, out, adds, blockvars>>

\* the feature size is measured on a dummy batch of one; the module is in
\* training mode, as every freshly constructed nn.Module
ResnetPreact_init_probe ==
    /\ family = "resnet_preact" /\ pc = "probe"
    /\ LET dummy_data == Tensor(1, config.n_channels, config.image_size, config.image_size)
       IN \E p \in {ResnetPreact_forward_conv(net, dummy_data, TRUE)} :
            /\ adds' = p.adds
            /\ IF p.x.ok
               THEN /\ net' = [net EXCEPT
                                !.feature_size = p.x.B * p.x.C * p.x.H * p.x.W,
                                !.attrs = @ \cup {"feature_size"}]
                    /\ pc' = "finish" /\ err' = err
               ELSE Fail("ForwardError") /\ net' = net
    /\ UNCHANGED <<family, config, block, n_blocks_per_stage, n_channels, out, blockvars>>

\* the classifier is attached, the initializer applied, the Network returned
ResnetPreact_init_finish ==
    /\ family = "resnet_preact" /\ pc = "finish"
    /\ net' = [net EXCEPT !.fc = Linear(net.feature_size, config.n_classes),
                          !.attrs = @ \cup {"fc"}]
    /\ pc' = "done"
    /\ UNCHANGED <<family, config, err, block, n_blocks_per_stage, n_channels, out, adds,
                   blockvars>>

\* Network.forward on a batch of B images of size H x W, in either mode.
\* forward reads net and writes nothing of it, so one call per behaviour
\* reaches every result a later call could give.
ResnetPreact_call ==
    /\ family = "resnet_preact" /\ pc = "done" /\ ~out.called
    /\ \E b \in Batches, h \in Sizes, w \in Sizes, training \in BOOLEAN :
         \E r \in {ResnetPreact_forward(net, Tensor(b, config.n_channels, h, w), training)} :
            /\ out' = [called |-> TRUE, training |-> training,
                       x |-> Shape(Tensor(b, config.n_channels, h, w)),
                       y |-> r.y]
            /\ adds' = r.adds
    /\ UNCHANGED <<family, config, pc, err, block, n_blocks_per_stage, n_channels, net,
                   blockvars>>

\* ----------------------------------------------- wrn.Network.__init__
Wrn_init_check ==
    /\ family = "wrn" /\ pc = "start"
    /\ block' = "WrnBasicBlock"
    /\ n_blocks_per_stage' = Wrn_n_blocks_per_stage(config.depth)
    /\ IF Wrn_depth_ok(config.depth)
       THEN pc' = "build" /\ err' = err
       ELSE Fail("AssertionError")
    /\ UNCHANGED <<family, config, n_channels, net, out, adds, blockvars>>

Wrn_init_build ==
    /\ family = "wrn" /\ pc = "build"
    /\ LET ch == Wrn_n_channels(config.initial_channels, config.widening_factor)
       IN /\ n_channels' = ch
          /\ net' = [net EXCEPT
                !.conv = Conv2d(config.n_channels, ch[1], 3, 1, 1),
                !.stage1 = Wrn_make_stage(ch[1], ch[2], n_blocks_per_stage, 1,
                                          config.drop_rate),
                !.stage2 = Wrn_make_stage(ch[2], ch[3], n_blocks_per_stage, 2,
                                          config.drop_rate),
                !.stage3 = Wrn_make_stage(ch[3], ch[4], n_blocks_per_stage, 2,
                                          config.drop_rate),
                !.bn = BatchNorm2d(ch[4]),
                !.attrs = @ \cup {"conv", "stage1", "stage2", "stage3", "bn"}]
    /\ pc' = "probe"
    /\ UNCHANGED <<family, config, err, block, n_blocks_per_stage, out, adds, blockvars>>

Wrn_init_probe ==
    /\ family = "wrn" /\ pc = "probe"
    /\ LET dummy_data == Tensor(1, config.n_channels, config.image_size, config.image_size)
       IN \E p \in {Wrn_forward_conv(net, dummy_data, TRUE)} :
            /\ adds' = p.adds
            /\ IF p.x.ok
               THEN /\ net' = [net EXCEPT
                                !.feature_size = p.x.B * p.x.C * p.x.H * p.x.W,
                                !.attrs = @ \cup {"feature_size"}]
                    /\ pc' = "finish" /\ err' = err
               ELSE Fail("ForwardError") /\ net' = net
    /\ UNCHANGED <<family, config, block, n_blocks_per_stage, n_channels, out, blockvars>>

Wrn_init_finish ==
    /\ family = "wrn" /\ pc = "finish"
    /\ net' = [net EXCEPT !.fc = Linear(net.feature_size, config.n_classes),
                          !.attrs = @ \cup {"fc"}]
    /\ pc' = "done"
    /\ UNCHANGED <<family, config, err, block, n_blocks_per_stage, n_channels, out, adds,
                   blockvars>>

Wrn_call ==
    /\ family = "wrn" /\ pc = "done" /\ ~out.called
    /\ \E b \in Batches, h \in Sizes, w \in Sizes, training \in BOOLEAN :
         \E r \in {Wrn_forward(net, Tensor(b, config.n_channels, h, w), training)} :
            /\ out' = [called |-> TRUE, training |-> training,
                       x |-> Shape(Tensor(b, config.n_channels, h, w)),
                       y |-> r.y]
            /\ adds' = r.adds
    /\ UNCHANGED <<family, config, pc, err, block, n_blocks_per_stage, n_channels, net,
                   blockvars>>

Next ==
    \/ ResnetPreact_init_check
    \/ ResnetPreact_init_build
    \/ ResnetPreact_init_probe
    \/ ResnetPreact_init_finish
    \/ ResnetPreact_call
    \/ Wrn_init_check
    \/ Wrn_init_build
    \/ Wrn_init_probe
    \/ Wrn_init_finish
    \/ Wrn_call

Spec == Init /\ [][Next]_vars

\* ------------------------------------------------ stand-alone blocks
BlockChannels == 1..MaxBlockChannels

ResnetBlockArgs ==
    [cls : {"BasicBlock", "BottleneckBlock"},
     in_channels : BlockChannels, out_channels : BlockChannels, stride : Strides,
     remove_first_relu : BOOLEAN, add_last_bn : BOOLEAN, preact : BOOLEAN]

WrnBlockArgs ==
    [cls : {"WrnBasicBlock"},
     in_channels : BlockChannels, out_channels : BlockChannels, stride : Strides,
     drop_rate : DropRates]

\* a block class is about to be instantiated with arbitrary arguments
BlockInit ==
    /\ bargs \in ResnetBlockArgs \cup WrnBlockArgs
    /\ bpc = "new" /\ blk = [kind |-> "none"] /\ bout = NoBlockOut
    /\ NetIdle

BasicBlock_init ==
    /\ bpc = "new" /\ bargs.cls = "BasicBlock"
    /\ blk' = BasicBlock(bargs.in_channels, bargs.out_channels, bargs.stride,
                         bargs.remove_first_relu, bargs.add_last_bn, bargs.preact)
    /\ bpc' = "built"
    /\ UNCHANGED <<bargs, bout, netvars>>

BottleneckBlock_init ==
    /\ bpc = "new" /\ bargs.cls = "BottleneckBlock"
    /\ blk' = BottleneckBlock(bargs.in_channels, bargs.out_channels, bargs.stride,
                              bargs.remove_first_relu, bargs.add_last_bn, bargs.preact)
    /\ bpc' = "built"
    /\ UNCHANGED <<bargs, bout, netvars>>

WrnBasicBlock_init ==
    /\ bpc = "new" /\ bargs.cls = "WrnBasicBlock"
    /\ blk' = WrnBasicBlock(bargs.in_channels, bargs.out_channels, bargs.stride,
                            bargs.drop_rate)
    /\ bpc' = "built"
    /\ UNCHANGED <<bargs, bout, netvars>>

\* block(x) on a batch of B feature maps of size H x W, in either mode
Block_call ==
    /\ bpc = "built" /\ ~bout.called
    /\ \E b \in Batches, h \in Sizes, w \in Sizes, training \in BOOLEAN :
         LET x == Tensor(b, bargs.in_channels, h, w)
         IN bout' = [called |-> TRUE, training |-> training, x |-> Shape(x),
                     r |-> <<Block_forward(blk, x, training)>>]
    /\ UNCHANGED <<bpc, bargs, blk, netvars>>

BlockNext ==
    \/ BasicBlock_init
    \/ BottleneckBlock_init
    \/ WrnBasicBlock_init
    \/ Block_call

BlockSpec == BlockInit /\ [][BlockNext]_vars

\* ============================================================ claims
Stages == <<net.stage1, net.stage2, net.stage3>>

Built == "stage3" \in net.attrs

\* the depth check of __init__ has been passed
Passed == pc \notin {"start", "idle"} /\ ~(pc = "failed" /\ err = "AssertionError")

Checked == pc \notin {"start", "idle"}

KnownBlockType == family = "wrn" \/ config.block_type \in {"basic", "bottleneck"}

\* (c, k) of the divisibility relation depth = k*n + c
DepthC == IF family = "wrn" THEN 4 ELSE 2

DepthK ==
    IF family = "wrn" THEN 6
    ELSE IF config.block_type = "basic" THEN 6 ELSE 9

BlockCounts == (0 - NegDepth - 4)..MaxDepth

\* C1: the depth check passes exactly when depth = k*n + c for an integer n,
\* with (c, k) = (2, 6) basic, (2, 9) bottleneck, (4, 6) wrn; the block count
\* used is then that n, and k*n + c gives the depth back; basic depth 20 gives
\* 3 blocks per stage, basic depth 19 fails.
C1_DepthCheck ==
    (Checked /\ KnownBlockType) =>
        /\ Passed <=> \E n \in BlockCounts : config.depth = DepthK * n + DepthC
        /\ Passed =>
             /\ DepthK * n_blocks_per_stage + DepthC = config.depth
             /\ \A n \in BlockCounts :
                  config.depth = DepthK * n + DepthC => n_blocks_per_stage = n
        /\ (family = "resnet_preact" /\ config.block_type = "basic" /\ config.depth = 20)
             => Passed /\ n_blocks_per_stage = 3
        /\ (family = "resnet_preact" /\ config.block_type = "basic" /\ config.depth = 19)
             => pc = "failed" /\ err = "AssertionError"

C1_Witness ==
    /\ family = "resnet_preact" /\ config.block_type = "bottleneck"
    /\ config.depth = 20 /\ Passed /\ n_blocks_per_stage = 2

\* the configuration errors of the constructor
BadConfig ==
    \/ family = "resnet_preact" /\ config.block_type \notin {"basic", "bottleneck"}
    \/ family = "resnet_preact" /\ config.block_type = "basic" /\ (config.depth - 2) % 6 # 0
    \/ family = "resnet_preact" /\ config.block_type = "bottleneck"
         /\ (config.depth - 2) % 9 # 0
    \/ family = "wrn" /\ (config.depth - 4) % 6 # 0

\* C2: with an unknown block_type or a depth violating the divisibility
\* relation the constructor stops at the check with an AssertionError: no stem
\* convolution, stage, final normalization or classifier is ever created, the
\* constructor never continues past the check and no Network is returned.
C2_FailFast ==
    BadConfig =>
        /\ pc \in {"start", "failed"}
        /\ pc = "failed" => err = "AssertionError"
        /\ net.attrs = {}
        /\ ~out.called

C2_Witness ==
    /\ family = "resnet_preact" /\ config.block_type = "plain" /\ config.depth = 20
    /\ pc = "failed" /\ err = "AssertionError" /\ net.attrs = {}

\* C3: the shortcut of a block is the identity iff in_channels = out_channels
\* and stride = 1; otherwise it holds a 1x1 projection in_channels ->
\* out_channels with the block's stride.
C3_ShortcutIdentityIff ==
    bpc = "built" =>
        IF bargs.in_channels = bargs.out_channels /\ bargs.stride = 1
        THEN Len(blk.shortcut) = 0
        ELSE /\ Len(blk.shortcut) = 1
             /\ blk.shortcut[1].module =
                  Conv2d(bargs.in_channels, bargs.out_channels, 1, bargs.stride, 0)

\* C4: in every block of every network built from a valid configuration, for
\* every input height and width, the residual-path tensor and the shortcut
\* tensor that are added have the same shape (batch, channels, height, width).
C4_AddShapesAgree ==
    \A i \in 1..Len(adds) :
        adds[i].res.ok => adds[i].sc.ok /\ adds[i].sc = adds[i].res

C4_Witness ==
    /\ out.called /\ out.x.H = 5 /\ out.x.W = 4
    /\ Len(adds) = 9
    /\ \A i \in 1..Len(adds) : adds[i].res.ok
    /\ adds[4].res.H = 3 /\ adds[4].res.W = 2
    /\ adds[7].res.H = 2 /\ adds[7].res.W = 1

\* C5 as claimed: every forward call on a constructed network, for every batch
\* size, height and width >= 1, returns a tensor of shape (B, n_classes).
C5_ForwardShapeAlways ==
    out.called =>
        /\ out.y.ok
        /\ out.y.B = out.x.B /\ out.y.F = config.n_classes

\* C5 amended: a forward call returns a tensor of shape (B, n_classes) for
\* every batch size, height and width >= 1, except that in training mode a
\* single image of height and width both <= 4 makes batch normalization raise
\* (one value per channel after the two stride-2 stages); the classifier's
\* input width is the measured feature size, the last channel width.
C5_ForwardShape ==
    out.called =>
        /\ out.y.ok <=> ~(out.training /\ out.x.B = 1 /\ out.x.H <= 4 /\ out.x.W <= 4)
        /\ out.y.ok => out.y.B = out.x.B /\ out.y.F = config.n_classes
        /\ net.fc.in_features = net.feature_size
        /\ net.feature_size = n_channels[Len(n_channels)]

C5_Witness ==
    /\ out.called /\ ~out.training /\ out.x.B = 2 /\ out.x.H = 1 /\ out.x.W = 2
    /\ config.image_size = 6
    /\ out.y.ok /\ out.y.B = 2 /\ out.y.F = config.n_classes

\* C6: the stage builder never returns an empty stage: called with
\* n_blocks < 1 it fails.
C6_NoEmptyStage ==
    \A k \in 1..3 : Built => Len(Stages[k]) >= 1

\* the arguments of the three _make_stage calls of __init__
StageIn(k) ==
    IF family = "wrn" THEN n_channels[k]
    ELSE IF k = 1 THEN n_channels[1] ELSE n_channels[k - 1]

StageOut(k) == IF family = "wrn" THEN n_channels[k + 1] ELSE n_channels[k]

StageStride(k) == IF k = 1 THEN 1 ELSE 2

\* the stride a block applies, read off its strided convolution
StrideOf(b) == IF b.kind = "BottleneckBlock" THEN b.conv2.stride ELSE b.conv1.stride

\* C7: a stage built with n_blocks >= 1 is the sequence block1..block{n_blocks};
\* the first block maps in_channels to out_channels with the given stride and
\* preact flag, every later block maps out_channels to out_channels with
\* stride 1, preact false and an identity shortcut; all blocks share
\* remove_first_relu and add_last_bn (resnet_preact) or drop_rate (wrn).
C7_StageLayout ==
    (Built /\ n_blocks_per_stage >= 1) =>
        \A k \in 1..3 :
            /\ Len(Stages[k]) = n_blocks_per_stage
            /\ \A i \in 1..Len(Stages[k]) :
                 LET b == Stages[k][i].module
                 IN /\ Stages[k][i].name = <<"block", i>>
                    /\ b.bn1.num_features = IF i = 1 THEN StageIn(k) ELSE StageOut(k)
                    /\ b.conv1.in_channels = b.bn1.num_features
                    /\ b.out_channels = StageOut(k)
                    /\ StrideOf(b) = IF i = 1 THEN StageStride(k) ELSE 1
                    /\ i > 1 => Len(b.shortcut) = 0
                    /\ IF family = "wrn"
                       THEN b.drop_rate = config.drop_rate
                       ELSE /\ b.preact = IF i = 1 THEN config.preact_stage[k] ELSE FALSE
                            /\ b.remove_first_relu = config.remove_first_relu
                            /\ b.add_last_bn = config.add_last_bn

C7_Witness ==
    /\ family = "resnet_preact" /\ Built /\ n_blocks_per_stage = 3
    /\ config.preact_stage[2] /\ config.remove_first_relu /\ ~config.add_last_bn
    /\ Stages[2][1].module.preact /\ ~Stages[2][2].module.preact

\* C8 as claimed: in every block of every assembled network a block has
\* stride # 1 iff its in_channels # out_channels, and both occur only in the
\* first block of a stage.
C8_StrideIffChannels ==
    Built =>
        \A k \in 1..3 : \A i \in 1..Len(Stages[k]) :
            LET b == Stages[k][i].module
            IN /\ StrideOf(b) # 1 <=> b.in_channels # b.out_channels
               /\ (StrideOf(b) # 1 \/ b.in_channels # b.out_channels) => i = 1

\* C8 amended: a block with stride # 1 always changes the channel count, and
\* stride and channel changes occur only in the first block of a stage; a
\* channel change at stride 1 occurs exactly in the first block of stage 1 of
\* a wrn with widening_factor >= 2.
C8_StrideImpliesChannels ==
    Built =>
        \A k \in 1..3 : \A i \in 1..Len(Stages[k]) :
            LET b == Stages[k][i].module
            IN /\ StrideOf(b) # 1 => b.in_channels # b.out_channels
               /\ (StrideOf(b) # 1 \/ b.in_channels # b.out_channels) => i = 1
               /\ (StrideOf(b) = 1 /\ b.in_channels # b.out_channels)
                    <=> (family = "wrn" /\ config.widening_factor >= 2 /\ k = 1 /\ i = 1)

C8_Witness ==
    /\ family = "wrn" /\ config.widening_factor = 2 /\ Built /\ n_blocks_per_stage = 2
    /\ Stages[1][1].module.in_channels # Stages[1][1].module.out_channels
    /\ StrideOf(Stages[1][1].module) = 1
    /\ StrideOf(Stages[2][1].module) = 2

\* the layers after the first convolution's input, up to the addition
ResidualTail ==
    IF bargs.cls = "BasicBlock"
    THEN <<"conv1", "bn2", "relu", "conv2">>
         \o (IF bargs.add_last_bn THEN <<"bn3">> ELSE <<>>)
    ELSE <<"conv1", "bn2", "relu", "conv2", "bn3", "relu", "conv3">>
         \o (IF bargs.add_last_bn THEN <<"bn4">> ELSE <<>>)

\* C9: in the resnet_preact blocks, with preact both paths receive
\* relu(bn1(x)) whatever remove_first_relu is; without preact the shortcut
\* receives x itself and the residual path bn1(x), followed by a ReLU exactly
\* when remove_first_relu is false; the extra normalization is applied exactly
\* when add_last_bn is true, before the addition.
C9_Preactivation ==
    (bout.called /\ bargs.cls \in {"BasicBlock", "BottleneckBlock"}
       /\ bout.r[1].res.ok /\ bout.r[1].sc.ok) =>
        LET r == bout.r[1]
            first == IF bargs.preact THEN <<"bn1", "relu">>
                     ELSE IF bargs.remove_first_relu THEN <<"bn1">>
                     ELSE <<"bn1", "relu">>
            shared == IF bargs.preact THEN <<"bn1", "relu">> ELSE <<>>
        IN /\ r.res.ops = first \o ResidualTail
           /\ r.sc.ops \in {shared, shared \o <<"shortcut.conv">>}
           /\ r.y.ok => r.y.ops = r.res.ops \o <<"add">>

C9_Witness ==
    /\ bout.called /\ bargs.cls = "BasicBlock"
    /\ ~bargs.preact /\ bargs.remove_first_relu /\ bargs.add_last_bn
    /\ bout.r[1].y.ok
    /\ bout.r[1].res.ops = <<"bn1", "conv1", "bn2", "relu", "conv2", "bn3">>
    /\ bout.r[1].sc.ops = <<>>

\* the channel-width list as the claim gives it
ClaimedWidths ==
    IF family = "wrn"
    THEN <<config.initial_channels,
           config.initial_channels * config.widening_factor,
           2 * config.initial_channels * config.widening_factor,
           4 * config.initial_channels * config.widening_factor>>
    ELSE LET e == IF config.block_type = "basic" THEN 1 ELSE 4
         IN <<config.initial_channels,
              2 * config.initial_channels * e,
              4 * config.initial_channels * e>>

Terminated == pc \in {"done", "failed"}

\* the statements of C10 about widths, stem, stage chaining and strides
C10_Layout ==
    /\ n_channels = ClaimedWidths
    /\ net.conv.out_channels = n_channels[1]
    /\ Stages[1][1].module.bn1.num_features = net.conv.out_channels
    /\ \A k \in 2..3 :
         Stages[k][1].module.bn1.num_features = Stages[k - 1][1].module.out_channels
    /\ \A k \in 1..3 : StrideOf(Stages[k][1].module) = StageStride(k)
    /\ Stages[3][1].module.out_channels = n_channels[Len(n_channels)]
    /\ net.bn.num_features = n_channels[Len(n_channels)]

\* C10 as claimed: for every valid configuration with at least one block per
\* stage and every configured image_size >= 1, the widths are [c, 2ce, 4ce]
\* (resnet_preact) or [c, cw, 2cw, 4cw] (wrn), the stem outputs the first
\* entry, the stages chain with strides 1, 2, 2, and the construction-time
\* probe measures a feature size equal to the last entry.
C10_WidthsAndFeatureSizeAlways ==
    (Passed /\ KnownBlockType /\ n_blocks_per_stage >= 1 /\ Terminated) =>
        /\ C10_Layout
        /\ "feature_size" \in net.attrs
        /\ net.feature_size = n_channels[Len(n_channels)]

\* the configurations whose construction-time probe runs through
Probeable ==
    /\ config.image_size >= 5
    /\ (family = "resnet_preact" /\ config.block_type = "bottleneck")
         => config.initial_channels >= 4

\* C10 amended: widths, stem, chaining and strides as claimed; the probe
\* measures the feature size, equal to the last width, when image_size >= 5
\* and, for bottleneck, initial_channels >= 4. Otherwise the probe raises and
\* construction fails: run in training mode on a batch of one, batch
\* normalization rejects the 1x1 map an image_size of 1..4 leaves, and a
\* bottleneck of stage 1 has initial_channels \div 4 = 0 channels.
C10_WidthsAndFeatureSize ==
    (Passed /\ KnownBlockType /\ n_blocks_per_stage >= 1 /\ Built) =>
        /\ C10_Layout
        /\ "feature_size" \in net.attrs => net.feature_size = n_channels[Len(n_channels)]
        /\ Terminated => ("feature_size" \in net.attrs <=> Probeable)
        /\ Terminated => (pc = "done" <=> Probeable)

C10_Witness ==
    /\ family = "resnet_preact" /\ config.block_type = "basic"
    /\ config.initial_channels = 16 /\ config.image_size = 5
    /\ pc = "done" /\ n_channels = <<16, 32, 64>> /\ net.feature_size = 64

====
